---- MODULE Spec2Model ----
(***************************************************************************)
(* A model of the halo2-playground arithmetization toolkit:                *)
(*   - the duplex sponge of src/src/transcript_sponge.rs                   *)
(*     (new / absorb / finish_absorbing / squeeze over a permutation chip) *)
(*   - the gate chips and the circuit MyCircuit of src/src/lib.rs          *)
(*     (load_private / add / mul / add_and_mul / expose_public /           *)
(*      synthesize).                                                       *)
(* The constraint-system builder (the Layouter every call receives) is     *)
(* modelled as the ordered log of the regions and chip calls it was asked  *)
(* for.  Field elements are the integers modulo P.  synthesize uses the    *)
(* Sponge of the poseidon gadget, whose new / absorb / finish_absorbing /  *)
(* squeeze are the ones transcript_sponge.rs carries; the permutation chip *)
(* behind it is an external capability and is modelled by its contract.    *)
(***************************************************************************)
EXTENDS Integers, Sequences, FiniteSets, TLC

\* ------------------------------------------------------------- constants
\* lib.rs: const WIDTH: usize = 3 (the permutation width, T of the sponge)
WIDTH == 3
\* lib.rs: const RATE: usize = 2
RATE == 2
\* lib.rs: const L: usize = 1 (the message length of ConstantLength<L>)
L == 1

\* --------------------------------------------------------------- bounds
\* the field is the integers modulo P
P == 3
\* the harness absorbs at most MaxAbsorb words
MaxAbsorb == 3
\* the harness squeezes at most MaxSqueeze elements
MaxSqueeze == 5
\* the harness interleaves at most MaxOther unrelated synthesis steps
MaxOther == 1
\* iterations after which a squeeze loop is reported as not terminating
LoopFuel == 3

F == 0 .. (P - 1)

\* Option<X>: None is the empty tuple, Some(x) the one-element tuple
None == << >>
Some(x) == << x >>
IsSome(o) == o # None
Unwrap(o) == o[1]

\* PaddedWord<F>: Message(cell value) or Padding(constant)
Message(v) == [tag |-> "Message", val |-> v]
Padding(v) == [tag |-> "Padding", val |-> v]
PaddedWords == {Message(v) : v \in F} \cup {Padding(0)}

\* which chip call of one operation returns a synthesis error: none (0),
\* the first or the second
Faults == 0 .. 2

\* ------------------------------------------------ the permutation chip
\* (PoseidonSpongeInstructions: an external capability; only its contract
\*  is used: initial_state() -> State, add_input(State, Rate) -> State,
\*  permute(State) -> State, get_output(State) -> Rate)

Pow5(x) == (x * x * x * x * x) % P

Sum(s) == LET RECURSIVE Go(_)
              Go(i) == IF i > Len(s) THEN 0 ELSE s[i] + Go(i + 1)
          IN  Go(1)

\* the initial state of the domain: zero rate part, capacity element
\* set from the domain (ConstantLength<L>)
InitialState == [i \in 1 .. WIDTH |-> IF i = WIDTH THEN L % P ELSE 0]

\* state[i] + input[i] on the slots the block fills
AddInput(state, input) ==
    [i \in 1 .. WIDTH |->
        IF i <= RATE /\ IsSome(input[i])
        THEN (state[i] + Unwrap(input[i]).val) % P
        ELSE state[i]]

\* a fixed deterministic permutation-like round: round constants, the
\* x^5 S-box, a linear mix
Permute(state) ==
    LET rc == [i \in 1 .. WIDTH |-> (state[i] + i) % P]
        sb == [i \in 1 .. WIDTH |-> Pow5(rc[i])]
    IN  [i \in 1 .. WIDTH |-> (Sum(sb) + sb[i] + sb[(i % WIDTH) + 1] * i) % P]

\* the first RATE elements of the state, all present
GetOutput(state) == [i \in 1 .. RATE |-> Some(state[i])]

\* the number of rate blocks n words fill
CeilRate(n) == (n + RATE - 1) \div RATE

\* ---------------------------------------------------------- the builder
\* one entry of the builder's log: a chip call or a region, whether it
\* succeeded, what it was given and what it produced
Call(op, ok, input, output) ==
    [op |-> op, ok |-> ok, input |-> input, output |-> output]

\* the number of entries of log lay that are calls of op
CountOp(lay, op) == Cardinality({k \in 1 .. Len(lay) : lay[k].op = op})

\* ---------------------------------------------------------- the sponge
\* One synthesis pass: the Sponge struct (mode tag, mode.0 = buf, state),
\* the layouter it is handed, whether an operation returned Err, whether
\* a squeeze is stuck in its loop, and the history of the words absorbed
\* and the elements squeezed (iters: loop iterations of the last squeeze;
\* finishAt: the length of the layouter's log when finish_absorbing returned).
FreshRun ==
    [mode |-> "Unconstructed", buf |-> [i \in 1 .. RATE |-> None],
     state |-> [i \in 1 .. WIDTH |-> 0], layouter |-> << >>,
     err |-> FALSE, hung |-> FALSE,
     absorbed |-> << >>, squeezed |-> << >>, iters |-> 0, finishAt |-> 0]

\* a faulty variant of FirstNone: the scan runs from the right: the last empty slot
LastNone(buf) ==
    IF \E i \in 1 .. RATE : ~IsSome(buf[i])
    THEN CHOOSE i \in 1 .. RATE :
            ~IsSome(buf[i]) /\ \A j \in (i + 1) .. RATE : IsSome(buf[j])
    ELSE 0

\* the index of the first slot of buf that is empty (0: none)
FirstNone(buf) ==
    IF \E i \in 1 .. RATE : ~IsSome(buf[i])
    THEN CHOOSE i \in 1 .. RATE :
            ~IsSome(buf[i]) /\ \A j \in 1 .. (i - 1) : IsSome(buf[j])
    ELSE 0

\* a faulty variant of FirstSome: the scan runs from the right: the last filled slot
LastSome(buf) ==
    IF \E i \in 1 .. RATE : IsSome(buf[i])
    THEN CHOOSE i \in 1 .. RATE :
            IsSome(buf[i]) /\ \A j \in (i + 1) .. RATE : ~IsSome(buf[j])
    ELSE 0

\* the index of the first slot of buf that is filled (0: none)
FirstSome(buf) ==
    IF \E i \in 1 .. RATE : IsSome(buf[i])
    THEN CHOOSE i \in 1 .. RATE :
            IsSome(buf[i]) /\ \A j \in 1 .. (i - 1) : ~IsSome(buf[j])
    ELSE 0

\* a faulty variant of InitWith: the value goes to the last slot
InitWithLast(val) == [i \in 1 .. RATE |-> IF i = RATE THEN Some(val) ELSE None]

\* TranscriptAbsorbing::init_with
InitWith(val) == [i \in 1 .. RATE |-> IF i = 1 THEN Some(val) ELSE None]

\* a faulty variant of PoseidonSponge: the position of the call's region in the
\* layouter leaks into the permuted state
PoseidonSpongeRowSeeded(r, input, failAt) ==
    LET hasIn == IsSome(input)
        s1    == IF hasIn THEN AddInput(r.state, Unwrap(input)) ELSE r.state
        s2    == Permute([s1 EXCEPT ![1] = (@ + Len(r.layouter)) % P])
        lay1  == IF hasIn
                 THEN Append(r.layouter,
                             Call("add_input", TRUE, << r.state, Unwrap(input) >>, s1))
                 ELSE r.layouter
    IN  [r |-> [r EXCEPT !.state = s2,
                         !.layouter = Append(lay1, Call("permute", TRUE, s1, s2))],
         ok |-> TRUE, val |-> GetOutput(s2)]

\* fn poseidon_sponge(chip, layouter, state, input): input is None or
\* Some(buffer).  Returns the run after the call and the Result.
PoseidonSponge(r, input, failAt) ==
    LET hasIn    == IsSome(input)
        s1       == IF hasIn THEN AddInput(r.state, Unwrap(input)) ELSE r.state
        failAdd  == hasIn /\ failAt = 1
        failPerm == failAt = (IF hasIn THEN 2 ELSE 1)
        lay1     == IF hasIn
                    THEN Append(r.layouter,
                                Call("add_input", ~failAdd,
                                     << r.state, Unwrap(input) >>,
                                     IF failAdd THEN None ELSE s1))
                    ELSE r.layouter
        s2       == Permute(s1)
    IN  IF failAdd
        THEN [r |-> [r EXCEPT !.layouter = lay1], ok |-> FALSE, val |-> None]
        ELSE IF failPerm
        THEN [r |-> [r EXCEPT !.state = s1,
                              !.layouter = Append(lay1,
                                  Call("permute", FALSE, s1, None))],
              ok |-> FALSE, val |-> None]
        ELSE [r |-> [r EXCEPT !.state = s2,
                              !.layouter = Append(lay1,
                                  Call("permute", TRUE, s1, s2))],
              ok |-> TRUE, val |-> GetOutput(s2)]

\* a faulty variant of New: the sponge is made without asking the chip
NewUnlogged(r, failAt) ==
    IF failAt # 1
    THEN [r EXCEPT !.mode = "Absorbing",
                   !.buf = [i \in 1 .. RATE |-> None],
                   !.state = InitialState]
    ELSE [r EXCEPT !.err = TRUE]

\* a faulty variant of New: the state starts as zeros, not as the chip's
NewZeroState(r, failAt) ==
    IF failAt # 1
    THEN [r EXCEPT !.mode = "Absorbing",
                   !.buf = [i \in 1 .. RATE |-> None],
                   !.state = [i \in 1 .. WIDTH |-> 0],
                   !.layouter = Append(@, Call("initial_state", TRUE, None,
                                               InitialState))]
    ELSE [r EXCEPT !.err = TRUE,
                   !.layouter = Append(@, Call("initial_state", FALSE, None, None))]

\* Sponge::new
New(r, failAt) ==
    LET ok == failAt # 1
        st == InitialState
    IN  IF ok
        THEN [r EXCEPT !.mode = "Absorbing",
                       !.buf = [i \in 1 .. RATE |-> None],
                       !.state = st,
                       !.layouter = Append(@, Call("initial_state", TRUE, None, st))]
        ELSE [r EXCEPT !.err = TRUE,
                       !.layouter = Append(@, Call("initial_state", FALSE, None, None))]

\* a faulty variant of Absorb: a full block is replaced without being permuted
AbsorbDropsBlock(r, value, failAt) ==
    LET i == FirstNone(r.buf)
    IN  IF i # 0
        THEN [r EXCEPT !.buf[i] = Some(value),
                       !.absorbed = Append(@, value)]
        ELSE [r EXCEPT !.buf = InitWith(value),
                       !.absorbed = Append(@, value)]

\* a faulty variant of Absorb: the new buffer keeps the old block's other slots
AbsorbKeepsTail(r, value, failAt) ==
    LET i == FirstNone(r.buf)
    IN  IF i # 0
        THEN [r EXCEPT !.buf[i] = Some(value),
                       !.absorbed = Append(@, value)]
        ELSE LET ps == PoseidonSponge(r, Some(r.buf), failAt)
             IN  IF ps.ok
                 THEN [ps.r EXCEPT !.buf = [r.buf EXCEPT ![1] = Some(value)],
                                   !.absorbed = Append(@, value)]
                 ELSE [ps.r EXCEPT !.err = TRUE]

\* a faulty variant of Absorb: the block is permuted as soon as it fills up, not
\* when the next word arrives
AbsorbEager(r, value, failAt) ==
    LET i == FirstNone(r.buf)
        b == [r.buf EXCEPT ![i] = Some(value)]
    IN  IF i < RATE
        THEN [r EXCEPT !.buf = b, !.absorbed = Append(@, value)]
        ELSE LET ps == PoseidonSponge(r, Some(b), failAt)
             IN  IF ps.ok
                 THEN [ps.r EXCEPT !.buf = [k \in 1 .. RATE |-> None],
                                   !.absorbed = Append(@, value)]
                 ELSE [ps.r EXCEPT !.err = TRUE]

\* Sponge::absorb
Absorb(r, value, failAt) ==
    LET i == FirstNone(r.buf)
    IN  IF i # 0
        THEN [r EXCEPT !.buf[i] = Some(value),
                       !.absorbed = Append(@, value)]
        ELSE LET ps == PoseidonSponge(r, Some(r.buf), failAt)
             IN  IF ps.ok
                 THEN [ps.r EXCEPT !.buf = InitWith(value),
                                   !.absorbed = Append(@, value)]
                 ELSE [ps.r EXCEPT !.err = TRUE]

\* a faulty variant of FinishAbsorbing: an empty buffer is not permuted
FinishSkipEmpty(r, failAt) ==
    LET ps == PoseidonSponge(r, Some(r.buf), failAt)
    IN  IF FirstSome(r.buf) = 0
        THEN [r EXCEPT !.mode = "Squeezing", !.buf = GetOutput(r.state),
                       !.finishAt = Len(r.layouter)]
        ELSE IF ps.ok
        THEN [ps.r EXCEPT !.mode = "Squeezing", !.buf = ps.val,
                          !.finishAt = Len(ps.r.layouter)]
        ELSE [ps.r EXCEPT !.err = TRUE]

\* Sponge::finish_absorbing
FinishAbsorbing(r, failAt) ==
    LET ps == PoseidonSponge(r, Some(r.buf), failAt)
    IN  IF ps.ok
        THEN [ps.r EXCEPT !.mode = "Squeezing", !.buf = ps.val,
                          !.finishAt = Len(ps.r.layouter)]
        ELSE [ps.r EXCEPT !.err = TRUE]

\* a faulty variant of SqueezeRefill: the refill reopens the sponge for absorbing
SqueezeRefillReopens(r, failAt) ==
    LET ps == PoseidonSponge(r, None, failAt)
    IN  IF ps.ok
        THEN [ps.r EXCEPT !.buf = ps.val, !.mode = "Absorbing"]
        ELSE [ps.r EXCEPT !.err = TRUE]

\* a faulty variant of SqueezeRefill: the permutation's output is not stored in
\* self.mode
SqueezeRefillDropped(r, failAt) ==
    LET ps == PoseidonSponge(r, None, failAt)
    IN  IF ps.ok
        THEN ps.r
        ELSE [ps.r EXCEPT !.err = TRUE]

\* the refill of Sponge::squeeze: self.mode = poseidon_sponge(.., None)?
SqueezeRefill(r, failAt) ==
    LET ps == PoseidonSponge(r, None, failAt)
    IN  IF ps.ok
        THEN [ps.r EXCEPT !.buf = ps.val]
        ELSE [ps.r EXCEPT !.err = TRUE]

\* Sponge::squeeze: the loop, iter counting its iterations from 1
RECURSIVE SqueezeLoop(_, _, _)
SqueezeLoop(r, failAt, iter) ==
    IF iter > LoopFuel
    THEN [r EXCEPT !.hung = TRUE, !.iters = iter]
    ELSE LET i == FirstSome(r.buf)
         IN  IF i # 0
             THEN [r EXCEPT !.buf[i] = None,
                            !.squeezed = Append(@, Unwrap(r.buf[i])),
                            !.iters = iter]
             ELSE LET q == SqueezeRefill(r, IF failAt = iter THEN 1 ELSE 0)
                  IN  IF q.err
                      THEN [q EXCEPT !.iters = iter]
                      ELSE SqueezeLoop(q, failAt, iter + 1)

\* a faulty variant of Squeeze: the buffer is refilled as soon as its last element
\* is taken
SqueezeEager(r, failAt) ==
    LET q == SqueezeLoop(r, failAt, 1)
    IN  IF ~q.err /\ ~q.hung /\ FirstSome(q.buf) = 0
        THEN SqueezeRefill(q, 0)
        ELSE q

\* a faulty variant of Squeeze: the element returned stays in the buffer
SqueezePeek(r, failAt) ==
    LET q == SqueezeLoop(r, failAt, 1)
    IN  IF ~q.err /\ ~q.hung
        THEN [q EXCEPT !.buf[LastNone(q.buf)] = Some(q.squeezed[Len(q.squeezed)])]
        ELSE q

Squeeze(r, failAt) == SqueezeLoop(r, failAt, 1)

\* ------------------------------------------------------ the gate library
\* an assigned cell (AssignedCell / Number): the region that holds it (the
\* index of the region in the layouter's log), its column, its offset in
\* the region and its value
Cell(region, col, row, val) ==
    [region |-> region, col |-> col, row |-> row, val |-> val]

NoCell == Cell(0, 0, 0, 0)

\* a region of the gate library: the offsets at which its selector is
\* enabled, the cells it assigns, the copy constraints it adds
Region(selector, cells, copies) ==
    [selector |-> selector, cells |-> cells, copies |-> copies]

\* the value at (col, row) of a region (an unassigned cell reads 0)
CellAt(reg, col, row) ==
    LET hit == {k \in 1 .. Len(reg.cells) :
                   reg.cells[k].col = col /\ reg.cells[k].row = row}
    IN  IF hit = {} THEN 0 ELSE reg.cells[CHOOSE k \in hit : TRUE].val

\* FieldChip::load_private
LoadPrivate(r, value, failAt) ==
    LET k    == Len(r.layouter) + 1
        cell == Cell(k, 0, 0, value)
    IN  IF failAt = 1
        THEN [r |-> [r EXCEPT !.err = TRUE,
                              !.layouter = Append(@,
                                  Call("load_private", FALSE, << value >>, None))],
              ok |-> FALSE, val |-> NoCell]
        ELSE [r |-> [r EXCEPT !.layouter = Append(@,
                                  Call("load_private", TRUE, << value >>,
                                       Region({}, << cell >>, << >>)))],
              ok |-> TRUE, val |-> cell]

\* a faulty variant of Add: the selector is enabled at offset 1
AddSelectorNextRow(r, a, b, failAt) ==
    LET k   == Len(r.layouter) + 1
        lhs == Cell(k, 0, 0, a.val)
        rhs == Cell(k, 1, 0, b.val)
        out == Cell(k, 0, 1, (a.val + b.val) % P)
    IN  [r |-> [r EXCEPT !.layouter = Append(@,
                              Call("add", TRUE, << a, b >>,
                                   Region({1}, << lhs, rhs, out >>,
                                          << << a, lhs >>, << b, rhs >> >>)))],
         ok |-> TRUE, val |-> out]

\* FieldChip::add / AddChip::add
Add(r, a, b, failAt) ==
    LET k     == Len(r.layouter) + 1
        lhs   == Cell(k, 0, 0, a.val)
        rhs   == Cell(k, 1, 0, b.val)
        value == (a.val + b.val) % P
        out   == Cell(k, 0, 1, value)
    IN  IF failAt = 1
        THEN [r |-> [r EXCEPT !.err = TRUE,
                              !.layouter = Append(@,
                                  Call("add", FALSE, << a, b >>, None))],
              ok |-> FALSE, val |-> NoCell]
        ELSE [r |-> [r EXCEPT !.layouter = Append(@,
                                  Call("add", TRUE, << a, b >>,
                                       Region({0}, << lhs, rhs, out >>,
                                              << << a, lhs >>, << b, rhs >> >>)))],
              ok |-> TRUE, val |-> out]

\* a faulty variant of Mul: the output cell is assigned the sum
MulAssignsSum(r, a, b, failAt) ==
    LET k   == Len(r.layouter) + 1
        lhs == Cell(k, 0, 0, a.val)
        rhs == Cell(k, 1, 0, b.val)
        out == Cell(k, 0, 1, (a.val + b.val) % P)
    IN  [r |-> [r EXCEPT !.layouter = Append(@,
                              Call("mul", TRUE, << a, b >>,
                                   Region({0}, << lhs, rhs, out >>,
                                          << << a, lhs >>, << b, rhs >> >>)))],
         ok |-> TRUE, val |-> out]

\* FieldChip::mul / MulChip::mul
Mul(r, a, b, failAt) ==
    LET k     == Len(r.layouter) + 1
        lhs   == Cell(k, 0, 0, a.val)
        rhs   == Cell(k, 1, 0, b.val)
        value == (a.val * b.val) % P
        out   == Cell(k, 0, 1, value)
    IN  IF failAt = 1
        THEN [r |-> [r EXCEPT !.err = TRUE,
                              !.layouter = Append(@,
                                  Call("mul", FALSE, << a, b >>, None))],
              ok |-> FALSE, val |-> NoCell]
        ELSE [r |-> [r EXCEPT !.layouter = Append(@,
                                  Call("mul", TRUE, << a, b >>,
                                       Region({0}, << lhs, rhs, out >>,
                                              << << a, lhs >>, << b, rhs >> >>)))],
              ok |-> TRUE, val |-> out]

\* a faulty variant of AddAndMul: mul is handed a, not the sum
AddAndMulSkipsSum(r, a, b, c, failAt) ==
    LET ab == Add(r, a, b, failAt)
    IN  IF ~ab.ok
        THEN ab
        ELSE Mul(ab.r, a, c, IF failAt = 2 THEN 1 ELSE 0)

\* FieldChip::add_and_mul: mul(add(a, b)?, c)
AddAndMul(r, a, b, c, failAt) ==
    LET ab == Add(r, a, b, failAt)
    IN  IF ~ab.ok
        THEN ab
        ELSE Mul(ab.r, ab.val, c, IF failAt = 2 THEN 1 ELSE 0)

\* a faulty variant of ExposePublic: no instance constraint is added
ExposeNothing(r, num, row, failAt) ==
    [r |-> r, ok |-> TRUE, val |-> None]

\* FieldChip::expose_public: layouter.constrain_instance(cell, instance, row)
ExposePublic(r, num, row, failAt) ==
    IF failAt = 1
    THEN [r |-> [r EXCEPT !.err = TRUE,
                          !.layouter = Append(@,
                              Call("constrain_instance", FALSE, << num, row >>, None))],
          ok |-> FALSE, val |-> None]
    ELSE [r |-> [r EXCEPT !.layouter = Append(@,
                              Call("constrain_instance", TRUE, << num, row >>, None))],
          ok |-> TRUE, val |-> None]

\* the "add" gate of AddChip::configure: s_add * (lhs + rhs - out)
AddGate(sel, lhs, rhs, out) == (sel * (lhs + rhs - out)) % P

\* the "mul" gate of MulChip::configure: s_mul * (lhs * rhs - out)
MulGate(sel, lhs, rhs, out) == (sel * (lhs * rhs - out)) % P

\* The constraint system the layouter's log describes is satisfied by the
\* assigned witness and the instance column (row 0 = instance): every gate
\* polynomial is zero on every row of its regions, every copy constraint
\* joins equal values, every instance constraint matches the column.
Verify(lay, instance) ==
    \A k \in 1 .. Len(lay) :
        LET e == lay[k]
        IN  e.ok =>
            /\ e.op \in {"add", "mul"} =>
                  /\ \A o \in 0 .. 1 :
                        LET sel == IF o \in e.output.selector THEN 1 ELSE 0
                            lhs == CellAt(e.output, 0, o)
                            rhs == CellAt(e.output, 1, o)
                            out == CellAt(e.output, 0, o + 1)
                        IN  IF e.op = "add"
                            THEN AddGate(sel, lhs, rhs, out) = 0
                            ELSE MulGate(sel, lhs, rhs, out) = 0
                  /\ \A c \in 1 .. Len(e.output.copies) :
                        e.output.copies[c][1].val = e.output.copies[c][2].val
            /\ e.op = "constrain_instance" =>
                  e.input[1].val = instance[e.input[2] + 1]

\* ------------------------------------------------- the layout of regions
\* whether a log entry is a region of the gate library (its output is a
\* Region) rather than a chip call
IsGateRegion(e) == e.ok /\ e.op \in {"load_private", "add", "mul"}

\* the advice columns an entry assigns: those of its cells for a gate
\* region; all WIDTH advice columns for a chip call (FieldChip::configure
\* hands the same advice columns to the gates and to the chip); none for
\* an instance constraint
EntryCols(e) ==
    IF IsGateRegion(e)
    THEN {e.output.cells[k].col : k \in 1 .. Len(e.output.cells)}
    ELSE IF e.op = "constrain_instance" \/ ~e.ok THEN {}
    ELSE 0 .. (WIDTH - 1)

\* the number of rows an entry takes: up to the last offset it assigns
EntryRows(e) ==
    IF IsGateRegion(e)
    THEN 1 + CHOOSE m \in {e.output.cells[k].row : k \in 1 .. Len(e.output.cells)} :
                 \A k \in 1 .. Len(e.output.cells) : e.output.cells[k].row <= m
    ELSE IF e.op = "constrain_instance" \/ ~e.ok THEN 0
    ELSE 1

\* the first row of entry k of the log: the region is placed below every
\* earlier region it shares a column with (single-pass floor planning)
RECURSIVE RegionStart(_, _)
RegionStart(lay, k) ==
    LET ends == {RegionStart(lay, j) + EntryRows(lay[j]) :
                    j \in {i \in 1 .. (k - 1) :
                              EntryCols(lay[i]) \cap EntryCols(lay[k]) # {}}}
    IN  IF ends = {} THEN 0
        ELSE CHOOSE m \in ends : \A x \in ends : x <= m

\* the rows entry k of the log occupies
RegionRowSet(lay, k) ==
    RegionStart(lay, k) .. (RegionStart(lay, k) + EntryRows(lay[k]) - 1)

\* <ConstantLength<L> as Domain>::padding(L): the zero words that round
\* the L message words up to a multiple of RATE
DomainPadding ==
    [i \in 1 .. (CeilRate(L) * RATE - L) |-> 0]

\* ------------------------------------------------------------ variables
VARIABLES
    runs,      \* run id -> the synthesis pass (sponge, layouter, history)
    pc,        \* MyCircuit::synthesize: the statement to execute next
    wit,       \* MyCircuit { a, b, c }: the private inputs
    pub,       \* the instance column handed to the prover (row 0 first)
    num,       \* synthesize's locals: the cells a, b, c, d and r
    absIdx     \* synthesize's absorb loop: the index of the next word

vars == << runs, pc, wit, pub, num, absIdx >>

circuit == << pc, wit, pub, num, absIdx >>

\* two synthesis passes side by side: 1 is the pass the single-run
\* specifications drive, 2 the second pass of the determinism check
Runs == {1, 2}

Usable(r) == ~r.err /\ ~r.hung

\* ---------------------------------------------- the sponge's client(s)
DoNew(i) ==
    /\ runs[i].mode = "Unconstructed"
    /\ Usable(runs[i])
    /\ \E f \in 0 .. 1 : runs' = [runs EXCEPT ![i] = New(@, f)]
    /\ UNCHANGED circuit

DoAbsorb(i) ==
    /\ runs[i].mode = "Absorbing"
    /\ Usable(runs[i])
    /\ Len(runs[i].absorbed) < MaxAbsorb
    /\ \E w \in PaddedWords, f \in Faults :
          runs' = [runs EXCEPT ![i] = Absorb(@, w, f)]
    /\ UNCHANGED circuit

DoFinishAbsorbing(i) ==
    /\ runs[i].mode = "Absorbing"
    /\ Usable(runs[i])
    /\ \E f \in Faults : runs' = [runs EXCEPT ![i] = FinishAbsorbing(@, f)]
    /\ UNCHANGED circuit

DoSqueeze(i) ==
    /\ runs[i].mode = "Squeezing"
    /\ Usable(runs[i])
    /\ Len(runs[i].squeezed) < MaxSqueeze
    /\ \E f \in 0 .. 1 : runs' = [runs EXCEPT ![i] = Squeeze(@, f)]
    /\ UNCHANGED circuit

\* another synthesis step using the same layouter between sponge calls
DoOther(i) ==
    /\ Usable(runs[i])
    /\ CountOp(runs[i].layouter, "other") < MaxOther
    /\ runs' = [runs EXCEPT ![i].layouter =
                    Append(@, Call("other", TRUE, None, None))]
    /\ UNCHANGED circuit

NoCells == [a |-> NoCell, b |-> NoCell, c |-> NoCell, d |-> NoCell, r |-> NoCell]

\* the sponge driven by an arbitrary client; no circuit is synthesized
Init ==
    /\ runs = [i \in Runs |-> FreshRun]
    /\ pc = "idle"
    /\ wit = [a |-> 0, b |-> 0, c |-> 0]
    /\ pub = << 0 >>
    /\ num = NoCells
    /\ absIdx = 0

NewSponge == DoNew(1)
AbsorbWord == DoAbsorb(1)
Finish == DoFinishAbsorbing(1)
SqueezeWord == DoSqueeze(1)
OtherStep == DoOther(1)

Next == NewSponge \/ AbsorbWord \/ Finish \/ SqueezeWord \/ OtherStep

Spec == Init /\ [][Next]_vars

\* ------------------------------------------- two passes, the same calls
\* Both passes make the same sponge calls with the same words, on the same
\* chip, none of whose calls fails; pass 2 runs other synthesis steps on
\* its layouter in between.
PairNew ==
    /\ \A i \in Runs : runs[i].mode = "Unconstructed"
    /\ runs' = [i \in Runs |-> New(runs[i], 0)]
    /\ UNCHANGED circuit

PairAbsorb ==
    /\ \A i \in Runs : runs[i].mode = "Absorbing" /\ Usable(runs[i])
    /\ Len(runs[1].absorbed) < MaxAbsorb
    /\ \E w \in PaddedWords : runs' = [i \in Runs |-> Absorb(runs[i], w, 0)]
    /\ UNCHANGED circuit

PairFinishAbsorbing ==
    /\ \A i \in Runs : runs[i].mode = "Absorbing" /\ Usable(runs[i])
    /\ runs' = [i \in Runs |-> FinishAbsorbing(runs[i], 0)]
    /\ UNCHANGED circuit

PairSqueeze ==
    /\ \A i \in Runs : runs[i].mode = "Squeezing" /\ Usable(runs[i])
    /\ Len(runs[1].squeezed) < MaxSqueeze
    /\ runs' = [i \in Runs |-> Squeeze(runs[i], 0)]
    /\ UNCHANGED circuit

PairOther == DoOther(2)

NextPair ==
    PairNew \/ PairAbsorb \/ PairFinishAbsorbing \/ PairSqueeze \/ PairOther

SpecPair == Init /\ [][NextPair]_vars

\* ------------------------------------------------- MyCircuit::synthesize
\* One action per statement of synthesize, on pass 1; a statement whose
\* call returns Err ends synthesize with that error (the ? operator).

\* a faulty variant of Goto: the Result of the call is dropped
GotoIgnoresErr(res, next) == next

\* where synthesize goes after a call: on if it was Ok, out if it was Err
Goto(res, next) == IF res.err THEN "error" ELSE next

\* let mut sponge = Sponge::new(poseidon_chip, ..)?
SynthNew ==
    /\ pc = "new"
    /\ \E f \in 0 .. 1 :
          LET q == New(runs[1], f)
          IN  /\ runs' = [runs EXCEPT ![1] = q]
              /\ pc' = Goto(q, "load_a")
    /\ UNCHANGED << wit, pub, num, absIdx >>

\* let a = field_chip.load_private(.., self.a)?
SynthLoadA ==
    /\ pc = "load_a"
    /\ \E f \in 0 .. 1 :
          LET q == LoadPrivate(runs[1], wit.a, f)
          IN  /\ runs' = [runs EXCEPT ![1] = q.r]
              /\ num' = [num EXCEPT !.a = q.val]
              /\ pc' = Goto(q.r, "load_b")
    /\ UNCHANGED << wit, pub, absIdx >>

\* let b = field_chip.load_private(.., self.b)?
SynthLoadB ==
    /\ pc = "load_b"
    /\ \E f \in 0 .. 1 :
          LET q == LoadPrivate(runs[1], wit.b, f)
          IN  /\ runs' = [runs EXCEPT ![1] = q.r]
              /\ num' = [num EXCEPT !.b = q.val]
              /\ pc' = Goto(q.r, "load_c")
    /\ UNCHANGED << wit, pub, absIdx >>

\* let c = field_chip.load_private(.., self.c)?
SynthLoadC ==
    /\ pc = "load_c"
    /\ \E f \in 0 .. 1 :
          LET q == LoadPrivate(runs[1], wit.c, f)
          IN  /\ runs' = [runs EXCEPT ![1] = q.r]
              /\ num' = [num EXCEPT !.c = q.val]
              /\ pc' = Goto(q.r, "add_and_mul")
    /\ UNCHANGED << wit, pub, absIdx >>

\* let d = field_chip.add_and_mul(&mut layouter, a, b, c)?
SynthAddAndMul ==
    /\ pc = "add_and_mul"
    /\ \E f \in Faults :
          LET q == AddAndMul(runs[1], num.a, num.b, num.c, f)
          IN  /\ runs' = [runs EXCEPT ![1] = q.r]
              /\ num' = [num EXCEPT !.d = q.val]
              /\ pc' = Goto(q.r, "absorb")
    /\ absIdx' = 1
    /\ UNCHANGED << wit, pub >>

\* a faulty variant of Words: the domain's padding is left out
WordsNoPadding(d) == << Message(d.val) >>

\* the words of the absorb loop: the message [d] as Message words, then
\* the domain's padding as Padding words
Words(d) ==
    << Message(d.val) >> \o [i \in 1 .. Len(DomainPadding) |-> Padding(DomainPadding[i])]

\* for (i, value) in ... { sponge.absorb(.., value)? }
SynthAbsorb ==
    /\ pc = "absorb"
    /\ \E f \in Faults :
          LET q == Absorb(runs[1], Words(num.d)[absIdx], f)
          IN  /\ runs' = [runs EXCEPT ![1] = q]
              /\ pc' = Goto(q, IF absIdx < Len(Words(num.d))
                               THEN "absorb" ELSE "finish_absorbing")
    /\ absIdx' = absIdx + 1
    /\ UNCHANGED << wit, pub, num >>

\* let mut sponge = sponge.finish_absorbing(..)?
SynthFinishAbsorbing ==
    /\ pc = "finish_absorbing"
    /\ \E f \in Faults :
          LET q == FinishAbsorbing(runs[1], f)
          IN  /\ runs' = [runs EXCEPT ![1] = q]
              /\ pc' = Goto(q, "squeeze")
    /\ UNCHANGED << wit, pub, num, absIdx >>

\* let r = sponge.squeeze(..)?
SynthSqueeze ==
    /\ pc = "squeeze"
    /\ \E f \in 0 .. 1 :
          LET q == Squeeze(runs[1], f)
          IN  /\ runs' = [runs EXCEPT ![1] = q]
              /\ num' = [num EXCEPT !.r =
                            IF q.err \/ q.hung THEN NoCell
                            ELSE Cell(Len(q.layouter), 0, 0,
                                      q.squeezed[Len(q.squeezed)])]
              /\ pc' = IF q.hung THEN "hung" ELSE Goto(q, "expose_public")
    /\ UNCHANGED << wit, pub, absIdx >>

\* a faulty variant of Exposed: the squeezed element is the cell exposed
ExposedSqueezed == num.r

\* the cell synthesize hands to expose_public
Exposed == num.d

\* field_chip.expose_public(.., d, 0)
SynthExposePublic ==
    /\ pc = "expose_public"
    /\ \E f \in 0 .. 1 :
          LET q == ExposePublic(runs[1], Exposed, 0, f)
          IN  /\ runs' = [runs EXCEPT ![1] = q.r]
              /\ pc' = Goto(q.r, "done")
    /\ UNCHANGED << wit, pub, num, absIdx >>

\* the circuit is synthesized for every choice of private inputs and of
\* the public input in row 0 of the instance column
InitCircuit ==
    /\ runs = [i \in Runs |-> FreshRun]
    /\ pc = "new"
    /\ wit \in [a : F, b : F, c : F]
    /\ pub \in [1 .. 1 -> F]
    /\ num = NoCells
    /\ absIdx = 0

NextCircuit ==
    \/ SynthNew
    \/ SynthLoadA
    \/ SynthLoadB
    \/ SynthLoadC
    \/ SynthAddAndMul
    \/ SynthAbsorb
    \/ SynthFinishAbsorbing
    \/ SynthSqueeze
    \/ SynthExposePublic

SpecCircuit == InitCircuit /\ [][NextCircuit]_vars

\* ------------------------- Sponge::new for any const parameters T, RATE
\* Sponge is generic in T and RATE; the bounds of its type parameters
\* (S: Spec<F, T, RATE>, PoseidonChip: PoseidonSpongeInstructions<.., T,
\* RATE>) relate neither to the other, so new() can be called for any pair.
MaxT == 3
MaxRate == 3

\* the chip's initial state for a state of t elements
InitialStateFor(t) == [i \in 1 .. t |-> IF i = t THEN L % P ELSE 0]

\* Sponge::new with T = t and RATE = rate
NewFor(r, t, rate, failAt) ==
    IF failAt # 1
    THEN [r EXCEPT !.mode = "Absorbing",
                   !.buf = [i \in 1 .. rate |-> None],
                   !.state = InitialStateFor(t),
                   !.layouter = Append(@, Call("initial_state", TRUE, None,
                                               InitialStateFor(t)))]
    ELSE [r EXCEPT !.err = TRUE,
                   !.layouter = Append(@, Call("initial_state", FALSE, None, None))]

DoNewFor(i) ==
    /\ runs[i].mode = "Unconstructed"
    /\ Usable(runs[i])
    /\ \E t \in 1 .. MaxT, rate \in 1 .. MaxRate, f \in 0 .. 1 :
          runs' = [runs EXCEPT ![i] = NewFor(@, t, rate, f)]
    /\ UNCHANGED circuit

\* each synthesis pass constructs its sponge, for parameters of its own
ParamNew == DoNewFor(1)

ParamNewSecond == DoNewFor(2)

NextParam == ParamNew \/ ParamNewSecond \/ OtherStep \/ PairOther

SpecParam == Init /\ [][NextParam]_vars

\* MockProver::run(k, &circuit, vec![public_inputs]).verify() == Ok(())
Verifies(instance) == Verify(runs[1].layouter, instance)

\* ---------------------------------------------------------------- claims
R1 == runs[1]

\* the indices of the log's entries that are calls of op, after entry k
CallsAfter(lay, op, k) == {j \in (k + 1) .. Len(lay) : lay[j].op = op}

PermCalls(r) == Cardinality(CallsAfter(r.layouter, "permute", 0))

CeilDiv(m, n) == (m + n - 1) \div n

\* the reference (non-circuit) hash of the one-word message [m] under the
\* fixed-length-1 domain: the first element squeezed after absorbing m and
\* the padding into the initial state
RefHash(m) ==
    LET block == [i \in 1 .. RATE |->
                     IF i = 1 THEN Some(Message(m)) ELSE Some(Padding(0))]
    IN  Permute(AddInput(InitialState, block))[1]

\* d = (a + b) * c for the circuit's private inputs
Derived == ((wit.a + wit.b) * wit.c) % P

\* the entries of pass 1's log that bind a cell to the instance column
InstanceBindings ==
    {k \in 1 .. Len(R1.layouter) : R1.layouter[k].op = "constrain_instance"}

C2_VerifiesWithD ==
    (pc = "done" /\ pub[1] = Derived) => Verifies(pub)

C2_Witness ==
    pc = "done" /\ pub[1] = Derived /\ Derived # 0 /\ wit.a # 0

\* C3: whenever the synthesized circuit is satisfied with public input y,
\* it is not satisfied with y + 1 in its place.
C3_NegativeControl ==
    (pc = "done" /\ Verifies(pub)) =>
        ~Verifies([pub EXCEPT ![1] = (@ + 1) % P])

C3_Witness ==
    pc = "done" /\ Verifies(pub) /\ ~Verifies([pub EXCEPT ![1] = (@ + 1) % P])
        /\ wit.c # 0

\* C4: from a fresh sponge, absorbing k <= RATE words makes no permutation
\* call; absorbing RATE + 1 words makes exactly one, whose input block is
\* exactly the first RATE words, the (RATE+1)-th being buffered after it,
\* alone in slot 0.
C4_AbsorbPermutesOnOverflowOnly ==
    (R1.mode = "Absorbing" /\ ~R1.err) =>
        /\ Len(R1.absorbed) <= RATE => PermCalls(R1) = 0
        /\ Len(R1.absorbed) = RATE + 1 =>
              /\ PermCalls(R1) = 1
              /\ \E k \in 1 .. (Len(R1.layouter) - 1) :
                    /\ R1.layouter[k].op = "add_input"
                    /\ R1.layouter[k].input[2] =
                          [i \in 1 .. RATE |-> Some(R1.absorbed[i])]
                    /\ R1.layouter[k + 1].op = "permute"
                    /\ R1.layouter[k + 1].input = R1.layouter[k].output
              /\ R1.buf = [i \in 1 .. RATE |->
                             IF i = 1 THEN Some(R1.absorbed[RATE + 1]) ELSE None]

C4_Witness ==
    R1.mode = "Absorbing" /\ ~R1.err /\ Len(R1.absorbed) = RATE + 1

\* C5: after finish_absorbing, the first m <= RATE squeezes return
\* elements 0 .. m-1 of the output block of finish_absorbing's permutation,
\* in that order, with no further permutation call and the permutation
\* state unchanged, whatever other synthesis steps are interleaved.
C5_FirstBlockInOrder ==
    (R1.mode = "Squeezing" /\ ~R1.err /\ Len(R1.squeezed) <= RATE) =>
        LET fin == R1.layouter[R1.finishAt]
        IN  /\ fin.op = "permute"
            /\ \A j \in 1 .. Len(R1.squeezed) : R1.squeezed[j] = fin.output[j]
            /\ CallsAfter(R1.layouter, "permute", R1.finishAt) = {}
            /\ R1.state = fin.output

C5_Witness ==
    /\ R1.mode = "Squeezing" /\ ~R1.err /\ Len(R1.squeezed) = RATE
    /\ R1.squeezed[1] # R1.squeezed[RATE]
    /\ R1.layouter[Len(R1.layouter)].op = "other"

\* C6: after finish_absorbing, m squeezes make CeilDiv(m, RATE) - 1
\* permutation calls (none for m = 0): one per extra block, fired only
\* when the previous block is used up, each on the state the previous
\* permutation left, with no input added.
C6_OnePermutationPerExtraBlock ==
    (R1.mode = "Squeezing" /\ ~R1.err) =>
        LET m    == Len(R1.squeezed)
            lay  == R1.layouter
            perm == CallsAfter(lay, "permute", R1.finishAt)
        IN  /\ Cardinality(perm) = IF m = 0 THEN 0 ELSE CeilDiv(m, RATE) - 1
            /\ CallsAfter(lay, "add_input", R1.finishAt) = {}
            /\ \A k \in perm :
                  \E j \in 1 .. (k - 1) :
                      /\ lay[j].op = "permute"
                      /\ lay[j].output = lay[k].input
                      /\ \A h \in (j + 1) .. (k - 1) : lay[h].op = "other"

C6_Witness ==
    R1.mode = "Squeezing" /\ ~R1.err /\ Len(R1.squeezed) = 2 * RATE + 1

\* C7: finish_absorbing makes exactly one add_input call with the current
\* buffer (full, partial or empty) and exactly one permutation call on its
\* result, and the Squeezing buffer it produces is the first RATE elements
\* of the permuted state, in order, all present.
C7_FinishPermutesOnce ==
    [][(R1.mode = "Absorbing" /\ R1'.mode = "Squeezing") =>
          LET lay == R1.layouter
              n   == Len(R1.layouter)
              new == R1'.layouter
          IN  /\ Len(new) = n + 2
              /\ \A k \in 1 .. n : new[k] = lay[k]
              /\ new[n + 1].op = "add_input"
              /\ new[n + 1].input = << R1.state, R1.buf >>
              /\ new[n + 2].op = "permute"
              /\ new[n + 2].ok
              /\ new[n + 2].input = new[n + 1].output
              /\ R1'.state = new[n + 2].output
              /\ R1'.buf = [i \in 1 .. RATE |-> Some(R1'.state[i])]
              /\ R1'.absorbed = R1.absorbed]_vars

C7_Witness ==
    R1.mode = "Squeezing" /\ ~R1.err /\ R1.absorbed = << >>
        /\ R1.squeezed = << >>

\* C8: the mode only ever moves Absorbing -> Squeezing, in a
\* finish_absorbing step; words are absorbed only in Absorbing mode and
\* elements squeezed only in Squeezing mode.
C8_ModeOneWay ==
    [][/\ R1.mode = "Squeezing" => R1'.mode = "Squeezing"
       /\ (R1.mode = "Absorbing" /\ R1'.mode # "Absorbing") =>
             (R1'.mode = "Squeezing" /\ R1'.finishAt = Len(R1'.layouter)
                 /\ R1'.absorbed = R1.absorbed /\ R1'.squeezed = R1.squeezed)
       /\ R1'.absorbed # R1.absorbed =>
             (R1.mode = "Absorbing" /\ R1'.mode = "Absorbing")
       /\ R1'.squeezed # R1.squeezed =>
             (R1.mode = "Squeezing" /\ R1'.mode = "Squeezing")]_vars

C8_Witness ==
    R1.mode = "Squeezing" /\ ~R1.err /\ Len(R1.squeezed) = RATE + 1

\* C9: every squeeze call returns after at most two iterations of its
\* loop, having made at most one permutation call.
C9_SqueezeTwoIterations ==
    [][(R1.mode = "Squeezing" /\ R1' # R1 /\ ~R1'.err
            /\ R1'.layouter # Append(R1.layouter, Call("other", TRUE, None, None))) =>
          /\ ~R1'.hung
          /\ R1'.iters <= 2
          /\ Len(R1'.squeezed) = Len(R1.squeezed) + 1
          /\ PermCalls(R1') <= PermCalls(R1) + 1
          /\ R1'.iters = 2 <=> PermCalls(R1') = PermCalls(R1) + 1]_vars

C9_Witness ==
    R1.mode = "Squeezing" /\ ~R1.err /\ R1.iters = 2

R2 == runs[2]

C11_Original ==
    \A i, j \in 1 .. RATE : (i < j /\ IsSome(R1.buf[j])) => IsSome(R1.buf[i])

\* C11 (amended): while Absorbing, the filled slots are a prefix of the
\* buffer (no empty slot before a filled one); while Squeezing, the slots
\* not yet squeezed are a suffix (no filled slot before an empty one).
C11_PrefixThenSuffix ==
    /\ R1.mode # "Squeezing" =>
          \A i, j \in 1 .. RATE : (i < j /\ IsSome(R1.buf[j])) => IsSome(R1.buf[i])
    /\ R1.mode = "Squeezing" =>
          \A i, j \in 1 .. RATE : (i < j /\ IsSome(R1.buf[i])) => IsSome(R1.buf[j])

C11_Witness ==
    /\ R1.mode = "Squeezing" /\ ~IsSome(R1.buf[1]) /\ IsSome(R1.buf[RATE])
    /\ Len(R1.absorbed) = 1

\* C12: add_and_mul(a, b, c) allocates exactly two regions, an add region
\* then a mul region, that share no row; the add region's output cell is
\* the cell copied into the mul region's lhs, c the one copied into its
\* rhs, and the cell returned is the mul region's output, of value
\* (a + b) * c.
C12_AddAndMul ==
    [][(pc = "add_and_mul" /\ pc' = "absorb") =>
          LET n   == Len(R1.layouter)
              new == R1'.layouter
              ad  == new[n + 1]
              ml  == new[n + 2]
          IN  /\ Len(new) = n + 2
              /\ \A k \in 1 .. n : new[k] = R1.layouter[k]
              /\ ad.op = "add" /\ ad.ok /\ ml.op = "mul" /\ ml.ok
              /\ ad.input = << num.a, num.b >>
              /\ ad.output.copies[1][1] = num.a
              /\ ad.output.copies[2][1] = num.b
              /\ ml.output.copies[1] =
                    << Cell(n + 1, 0, 1, (wit.a + wit.b) % P),
                       Cell(n + 2, 0, 0, (wit.a + wit.b) % P) >>
              /\ ml.output.copies[1][1] \in
                    {ad.output.cells[k] : k \in 1 .. Len(ad.output.cells)}
              /\ ml.output.copies[2][1] = num.c
              /\ num'.d = Cell(n + 2, 0, 1, Derived)
              /\ num'.d \in {ml.output.cells[k] : k \in 1 .. Len(ml.output.cells)}
              /\ RegionRowSet(new, n + 1) \cap RegionRowSet(new, n + 2) = {}
              /\ RegionStart(new, n + 2) > RegionStart(new, n + 1)]_vars

C12_Witness ==
    /\ pc = "absorb" /\ absIdx = 1 /\ num.d.val = Derived
    /\ Derived # (wit.a * wit.c) % P /\ Derived # 0

\* C13: every region add (resp. mul) allocates enables its selector at
\* offset 0 only, holds copies of its two inputs a and b in the two input
\* cells of row 0 (columns 0 and 1), each copy-constrained to its input,
\* and holds a + b (resp. a * b) at row 1 of column 0, so that the gate
\* polynomial is zero on the region.
C13_GateRegionShape ==
    \A k \in 1 .. Len(R1.layouter) :
        LET e   == R1.layouter[k]
            a   == e.input[1]
            b   == e.input[2]
            res == IF e.op = "add" THEN (a.val + b.val) % P
                                   ELSE (a.val * b.val) % P
        IN  (e.ok /\ e.op \in {"add", "mul"}) =>
                /\ e.output.selector = {0}
                /\ e.output.cells =
                      << Cell(k, 0, 0, a.val), Cell(k, 1, 0, b.val), Cell(k, 0, 1, res) >>
                /\ e.output.copies =
                      << << a, Cell(k, 0, 0, a.val) >>, << b, Cell(k, 1, 0, b.val) >> >>
                /\ \A o \in 0 .. 1 :
                      LET sel == IF o \in e.output.selector THEN 1 ELSE 0
                          lhs == CellAt(e.output, 0, o)
                          rhs == CellAt(e.output, 1, o)
                          out == CellAt(e.output, 0, o + 1)
                      IN  IF e.op = "add"
                          THEN (sel * (lhs + rhs - out)) % P = 0
                          ELSE (sel * (lhs * rhs - out)) % P = 0

C13_Witness ==
    \E j, k \in 1 .. Len(R1.layouter) :
        /\ R1.layouter[j].op = "add" /\ R1.layouter[j].ok
        /\ R1.layouter[k].op = "mul" /\ R1.layouter[k].ok
        /\ CellAt(R1.layouter[j].output, 0, 1) = 2
        /\ CellAt(R1.layouter[k].output, 0, 1) = 1

\* the entries of pass 1's log that returned a synthesis error
FailedCalls(lay) == {k \in 1 .. Len(lay) : ~lay[k].ok}

\* C14: the first call of synthesize that returns an error is its last
\* step: synthesize is left with that error at once, nothing follows the
\* failed call (no region, chip call, sponge call or public binding) and
\* the failed call is not made again.
C14_FailFast ==
    [][/\ pc # "error"
       /\ FailedCalls(R1.layouter) = {}
       /\ FailedCalls(R1'.layouter) # {} =>
             /\ pc' = "error"
             /\ R1'.err
             /\ FailedCalls(R1'.layouter) = {Len(R1'.layouter)}
             /\ R1'.absorbed = R1.absorbed
             /\ R1'.squeezed = R1.squeezed
       /\ (pc' = "error" \/ R1'.err) => FailedCalls(R1'.layouter) # {}]_vars

C14_Witness ==
    /\ pc = "error"
    /\ Len(R1.layouter) > 1
    /\ R1.layouter[Len(R1.layouter)].op = "permute"
    /\ ~R1.layouter[Len(R1.layouter)].ok

Max(a, b) == IF a >= b THEN a ELSE b

\* C15: with n words absorbed, the absorb calls have made
\* Max(0, CeilDiv(n, RATE) - 1) permutation calls, one per block filled
\* and then overflowed; finish_absorbing makes one more, for the last
\* block, so that Max(1, CeilDiv(n, RATE)) have been made when it returns.
\* A block of exactly RATE words stays unpermuted until finish_absorbing.
C15_PermutationsPerBlock ==
    LET n == Len(R1.absorbed)
    IN  /\ (R1.mode = "Absorbing" /\ ~R1.err) =>
              PermCalls(R1) = Max(0, CeilDiv(n, RATE) - 1)
        /\ (R1.mode = "Squeezing") =>
              /\ Cardinality({k \in 1 .. R1.finishAt :
                                 R1.layouter[k].op = "permute"})
                    = Max(1, CeilDiv(n, RATE))
              /\ R1.layouter[R1.finishAt].op = "permute"
              /\ \A k \in 1 .. R1.finishAt : R1.layouter[k].ok

C15_Witness ==
    /\ R1.mode = "Squeezing" /\ Len(R1.absorbed) = RATE + 1
    /\ \E k \in 1 .. (R1.finishAt - 1) : R1.layouter[k].op = "permute"

\* C16: in synthesize the sponge absorbs exactly RATE words, Message(d)
\* with d = (a + b) * c first and then the padding words of the
\* fixed-length-1 domain (one for RATE = 2); no permutation is made while
\* absorbing; finish_absorbing makes the only permutation, on that block;
\* squeeze is called once and returns element 0 of the permutation's
\* output without another permutation.
C16_OneBlockOnePermutation ==
    LET lay == R1.layouter
    IN  /\ pc = "finish_absorbing" =>
              /\ Len(R1.absorbed) = RATE
              /\ R1.absorbed[1] = Message(Derived)
              /\ \A i \in 2 .. RATE : R1.absorbed[i] = Padding(0)
              /\ R1.buf = [i \in 1 .. RATE |-> Some(R1.absorbed[i])]
              /\ PermCalls(R1) = 0
        /\ pc = "squeeze" =>
              /\ Len(R1.absorbed) = RATE
              /\ PermCalls(R1) = 1
              /\ R1.finishAt = Len(lay)
              /\ lay[Len(lay) - 1].op = "add_input"
              /\ lay[Len(lay) - 1].input[2] =
                    [i \in 1 .. RATE |-> Some(R1.absorbed[i])]
              /\ R1.squeezed = << >>
        /\ pc \in {"expose_public", "done"} =>
              /\ Len(R1.absorbed) = RATE
              /\ PermCalls(R1) = 1
              /\ lay[R1.finishAt].op = "permute"
              /\ R1.squeezed = << lay[R1.finishAt].output[1] >>
              /\ R1.squeezed = << RefHash(Derived) >>
              /\ num.r.val = RefHash(Derived)

C16_Witness ==
    /\ pc = "done"
    /\ R1.absorbed = << Message(Derived), Padding(0) >>
    /\ Len(R1.squeezed) = 1

\* C17: a successful absorb(w) on a buffer with a free slot sets the
\* leftmost free slot to w and changes nothing else: the other slots, the
\* permutation state and the mode are kept and the chip is not called.
\* A successful absorb(w) on a full buffer first adds the old full buffer
\* into the state and permutes it, and then leaves the buffer with w in
\* slot 0 and every other slot empty.
C17_AbsorbFrame ==
    [][(R1.mode = "Absorbing" /\ Len(R1'.absorbed) = Len(R1.absorbed) + 1) =>
          LET w   == R1'.absorbed[Len(R1'.absorbed)]
              n   == Len(R1.layouter)
              new == R1'.layouter
          IN  IF \E i \in 1 .. RATE : ~IsSome(R1.buf[i])
              THEN \E i \in 1 .. RATE :
                      /\ ~IsSome(R1.buf[i])
                      /\ \A j \in 1 .. (i - 1) : IsSome(R1.buf[j])
                      /\ R1'.buf[i] = Some(w)
                      /\ \A j \in 1 .. RATE : j # i => R1'.buf[j] = R1.buf[j]
                      /\ R1'.state = R1.state
                      /\ R1'.mode = R1.mode
                      /\ R1'.layouter = R1.layouter
              ELSE /\ R1'.buf[1] = Some(w)
                   /\ \A j \in 2 .. RATE : R1'.buf[j] = None
                   /\ R1'.mode = "Absorbing"
                   /\ Len(new) = n + 2
                   /\ new[n + 1] = Call("add_input", TRUE,
                                        << R1.state, R1.buf >>,
                                        AddInput(R1.state, R1.buf))
                   /\ new[n + 2] = Call("permute", TRUE,
                                        AddInput(R1.state, R1.buf),
                                        R1'.state)
                   /\ R1'.state = Permute(AddInput(R1.state, R1.buf))]_vars

C17_Witness ==
    /\ R1.mode = "Absorbing" /\ ~R1.err
    /\ Len(R1.absorbed) = RATE + 1
    /\ IsSome(R1.buf[1]) /\ \A j \in 2 .. RATE : ~IsSome(R1.buf[j])
    /\ PermCalls(R1) = 1

\* C18: a sponge operation in which a chip call fails returns the error
\* and leaves the sponge as it was before the operation: the rate buffer
\* and the permutation state are unchanged and the value being absorbed is
\* not buffered. It is stated for the sponge a failed call leaves behind:
\* absorb (which calls the chip on a full buffer only) and squeeze borrow
\* the sponge, finish_absorbing consumes it.
C18_Original ==
    [][(/\ ~R1.err /\ R1'.err
        /\ \/ R1.mode = "Squeezing"
           \/ R1.mode = "Absorbing" /\ \A i \in 1 .. RATE : IsSome(R1.buf[i])) =>
          /\ R1'.buf = R1.buf
          /\ R1'.state = R1.state
          /\ R1'.absorbed = R1.absorbed]_vars

\* the operations logged by pass 1, in order
Ops == [k \in 1 .. Len(R1.layouter) |-> R1.layouter[k].op]

\* C19 as stated: synthesize loads a, b, c, computes d = (a + b) * c, and
\* only then constructs the sponge (the request of initial_state), absorbs,
\* finishes absorbing, squeezes and binds the public input last.
C19_Original ==
    pc = "done" =>
        Ops = << "load_private", "load_private", "load_private", "add", "mul",
                 "initial_state", "add_input", "permute", "constrain_instance" >>

\* C19: synthesize constructs the sponge first (the request of
\* initial_state), then loads a, b, c, computes d = (a + b) * c, absorbs d
\* and the padding, finishes absorbing, squeezes, and binds the public
\* input last: a word is absorbed only after d is computed, the sponge is
\* finished only after RATE words are absorbed, an element is squeezed only
\* after that, and the binding comes after the squeeze and ends the log.
C19_SpongeFirst ==
    LET lay == R1.layouter
    IN  /\ (\E k \in 1 .. Len(lay) : lay[k].op # "initial_state") =>
              lay[1] = Call("initial_state", TRUE, None, InitialState)
        /\ Len(R1.absorbed) > 0 =>
              /\ Len(lay) >= 6
              /\ lay[6].op = "mul" /\ lay[6].ok
              /\ R1.absorbed[1] = Message(lay[6].output.cells[3].val)
        /\ R1.finishAt > 0 =>
              /\ Len(R1.absorbed) = RATE
              /\ R1.finishAt = 8
        /\ Len(R1.squeezed) > 0 => R1.finishAt > 0
        /\ (\E k \in 1 .. Len(lay) : lay[k].op = "constrain_instance") =>
              /\ Len(R1.squeezed) = 1
              /\ lay[Len(lay)].op = "constrain_instance"
              /\ CountOp(lay, "constrain_instance") = 1
        /\ pc = "done" =>
              Ops = << "initial_state", "load_private", "load_private",
                       "load_private", "add", "mul", "add_input", "permute",
                       "constrain_instance" >>

C19_Witness ==
    /\ pc = "done"
    /\ Ops[1] = "initial_state" /\ Ops[2] = "load_private"
    /\ Ops[Len(Ops)] = "constrain_instance"

\* C20: new() makes one initial_state request of the chip and no other
\* chip call. If the request succeeds the sponge is in Absorbing mode, all
\* RATE slots of its buffer are empty and its state is the value the chip
\* returned; if it fails new() returns the error and there is no sponge.
C20_New ==
    [][(R1.mode = "Unconstructed" /\ R1' # R1
        /\ CountOp(R1'.layouter, "other") = CountOp(R1.layouter, "other")) =>
          LET n == Len(R1.layouter)
              e == R1'.layouter[n + 1]
          IN  /\ Len(R1'.layouter) = n + 1
              /\ \A k \in 1 .. n : R1'.layouter[k] = R1.layouter[k]
              /\ e.op = "initial_state" /\ e.input = None
              /\ R1'.absorbed = << >> /\ R1'.squeezed = << >>
              /\ IF e.ok
                 THEN /\ ~R1'.err
                      /\ R1'.mode = "Absorbing"
                      /\ \A i \in 1 .. RATE : R1'.buf[i] = None
                      /\ Len(R1'.state) = WIDTH
                      /\ R1'.state = e.output
                 ELSE /\ R1'.err
                      /\ R1'.mode = "Unconstructed"]_vars

C20_Witness ==
    /\ R1.mode = "Absorbing" /\ ~R1.err
    /\ R1.absorbed = << >>
    /\ \A i \in 1 .. RATE : R1.buf[i] = None
    /\ CountOp(R1.layouter, "initial_state") = 1
    /\ R1.state = InitialState

\* the input blocks handed to the chip by pass 1, in call order
InputBlocks ==
    LET calls == SelectSeq(R1.layouter, LAMBDA e : e.op = "add_input" /\ e.ok)
    IN  [k \in 1 .. Len(calls) |-> calls[k].input[2]]

\* the filled slots of a block, in slot order
Filled(block) ==
    LET some == SelectSeq(block, LAMBDA x : IsSome(x))
    IN  [k \in 1 .. Len(some) |-> Unwrap(some[k])]

\* the filled slots of the first k blocks of a sequence, in order
RECURSIVE Flatten(_, _)
Flatten(blocks, k) ==
    IF k = 0 THEN << >> ELSE Flatten(blocks, k - 1) \o Filled(blocks[k])

\* C22: no absorbed value is lost, duplicated or reordered. After
\* v_1 .. v_n are absorbed and finish_absorbing has returned, the blocks
\* handed to the chip, concatenated in call order and restricted to their
\* filled slots, are exactly v_1 .. v_n; every block but the last is full,
\* and v_i is in block ceil(i / RATE) at slot (i - 1) mod RATE and nowhere
\* else. While absorbing, the blocks handed over so far followed by the
\* buffer are v_1 .. v_n in the same way.
C22_NoWordLost ==
    LET n      == Len(R1.absorbed)
        blocks == IF R1.mode = "Squeezing" THEN InputBlocks
                  ELSE Append(InputBlocks, R1.buf)
        nb     == Len(blocks)
    IN  ((R1.mode = "Absorbing" /\ ~R1.err) \/ R1.mode = "Squeezing") =>
           /\ Flatten(blocks, nb) = R1.absorbed
           /\ nb = Max(1, CeilDiv(n, RATE))
           /\ \A k \in 1 .. (nb - 1) : \A j \in 1 .. RATE : IsSome(blocks[k][j])
           /\ \A i \in 1 .. n :
                 blocks[((i - 1) \div RATE) + 1][((i - 1) % RATE) + 1]
                    = Some(R1.absorbed[i])
           /\ \A j \in 1 .. RATE :
                 (nb - 1) * RATE + j > n => blocks[nb][j] = None

C22_Witness ==
    /\ R1.mode = "Squeezing"
    /\ Len(R1.absorbed) = RATE + 1
    /\ Len(InputBlocks) = 2
    /\ InputBlocks[2][1] = Some(R1.absorbed[RATE + 1])
    /\ R1.absorbed[1] # R1.absorbed[2]

\* the output blocks of pass 1: the outputs of the permutation of
\* finish_absorbing and of the successful ones after it, cut to RATE
OutputBlocks ==
    LET perms == SelectSeq(SubSeq(R1.layouter, R1.finishAt, Len(R1.layouter)),
                           LAMBDA e : e.op = "permute" /\ e.ok)
    IN  [k \in 1 .. Len(perms) |-> GetOutput(perms[k].output)]

\* C23: squeeze returns every element of every output block once, in
\* order. Counting from 0, the j-th squeezed value is element j mod RATE
\* of the output of the (j div RATE)-th permutation counted from the one
\* of finish_absorbing. A successful squeeze call permutes the state, once
\* and without input, exactly when j > 0 and j mod RATE = 0; any other
\* squeeze call makes no chip call and leaves the state as it is.
C23_SqueezeInOrder ==
    [][(R1.mode = "Squeezing" /\ R1'.mode = "Squeezing") =>
          LET n == Len(R1.layouter)
              j == Len(R1.squeezed)
          IN  /\ \A i \in 0 .. (Len(R1'.squeezed) - 1) :
                    /\ (i \div RATE) + 1 <= Len(OutputBlocks')
                    /\ R1'.squeezed[i + 1]
                          = Unwrap(OutputBlocks'[(i \div RATE) + 1][(i % RATE) + 1])
              /\ Len(R1'.squeezed) = j + 1 =>
                    IF j > 0 /\ j % RATE = 0
                    THEN /\ R1'.layouter =
                               Append(R1.layouter,
                                      Call("permute", TRUE, R1.state, R1'.state))
                         /\ R1'.state = Permute(R1.state)
                    ELSE /\ R1'.layouter = R1.layouter
                         /\ R1'.state = R1.state
              /\ R1'.state # R1.state => (j > 0 /\ j % RATE = 0)]_vars

C23_Witness ==
    /\ R1.mode = "Squeezing" /\ ~R1.err
    /\ Len(R1.squeezed) = 2 * RATE + 1
    /\ Len(OutputBlocks) = 3
    /\ R1.squeezed[2 * RATE + 1] = Unwrap(OutputBlocks[3][1])

\* C21: construction enforces RATE < T: a sponge constructed with
\* RATE >= T is rejected, so every sponge new() returns has a state longer
\* than its rate buffer.
C21_Original ==
    (R1.mode = "Absorbing" /\ ~R1.err) => Len(R1.buf) < Len(R1.state)

====
